---- MODULE Spec2Model ----
(***************************************************************************)
(* Model of docarray/array/storage/milvus/backend.py: the Milvus storage   *)
(* backend mixin of DocumentArray.                                         *)
(*                                                                         *)
(* Python objects live in a heap (a sequence of objects, an address is an  *)
(* index), so that aliasing between the caller's configuration and the     *)
(* adapter's resolved configuration is visible.  Strings that the code     *)
(* builds by concatenation (collection names) are sequences of one-        *)
(* character strings; strings that are only passed around are TLA+         *)
(* strings.  An optional value is a sequence of length at most one:        *)
(* None is << >> and a value v is << v >>.                                 *)
(***************************************************************************)
EXTENDS Integers, Sequences, FiniteSets, TLC

VARIABLES
    heap,                      \* the Python heap: Seq of objects
    input,                     \* the caller's `config` argument: None or Some(address)
    self_config,               \* self._config: None (unset) or Some(address)
    self_connection_alias,     \* self._connection_alias: None or Some(alias)
    self_collection,           \* self._collection: None or Some(collection name)
    self_offset2id_collection, \* self._offset2id_collection: None or Some(name)
    base_initialized,          \* super()._init_storage has run
    connections,               \* pymilvus connections: set of [alias, host, port]
    store,                     \* collections of the external store
    calls,                     \* the external calls made so far, in order
    raised,                    \* the exception the last operation raised, or "none"
    pc,                        \* "new", "ready" (initialised) or "failed"
    docs_arg,                  \* the argument of the last payload encode
    payload,                   \* the value the last payload encode returned
    sub_args,                  \* the arguments of the last _ensure_unique_config
    sub_ret                    \* the value the last _ensure_unique_config returned

vars == << heap, input, self_config, self_connection_alias, self_collection,
           self_offset2id_collection, base_initialized, connections, store,
           calls, raised, pc, docs_arg, payload, sub_args, sub_ret >>

adapterVars == << self_config, self_connection_alias, self_collection,
                  self_offset2id_collection, base_initialized, connections,
                  store, calls, raised, pc >>
codecVars == << docs_arg, payload >>
subVars == << sub_args, sub_ret >>

----------------------------------------------------------------------------
(* Bounds of the model *)

\* vector dimensions range over 1..MaxDim
MaxDim == 2
\* number of distinct tokens uuid.uuid4() can return
NumTokens == 2
\* longest batch handed to _docs_to_milvus_payload
MaxBatch == 2

(* Program constants *)

\* max_length of the document_id and offset fields
IdMaxLength == 1024
\* max_length of the serialized field
SerializedMaxLength == 65535
\* default port
DefaultPort == 19530
\* dim of the dummy vector of the offset2id collection
DummyDim == 1
\* number of characters of uuid.uuid4().hex
HexLen == 32

----------------------------------------------------------------------------
(* Optional values *)

None == << >>
Some(v) == << v >>
Get(m) == m[1]

(* Strings built by the code, as sequences of characters *)

NamespacePrefix == << "d","o","c","a","r","r","a","y","_","_" >>
Offset2idSuffix == << "_","o","f","f","s","e","t","2","i","d" >>
SubindexSeparator == << "_","s","u","b","i","n","d","e","x","_" >>

\* lower-case hexadecimal digit number n (0..15)
HexDigit(n) == << "0","1","2","3","4","5","6","7","8","9","a","b","c","d","e","f" >>[n + 1]

\* uuid.uuid4().hex: 32 hexadecimal digits, digit 13 is the version (4) and
\* digit 17 carries the variant (8, 9, a or b); the rest is random.  The
\* model draws from NumTokens such tokens.
UuidToken(s) ==
    [ i \in 1..HexLen |->
        IF i = 13 THEN "4"
        ELSE IF i = 17 THEN HexDigit(8 + (s % 4))
        ELSE HexDigit((s * 7 + i) % 16) ]

Uuid4Hex == { UuidToken(s) : s \in 1..NumTokens }

----------------------------------------------------------------------------
(* Objects *)

\* an option mapping (index_config, collection_config, serialize_config):
\* a dict over the option keys the model knows, None marking an absent key
EmptyOptions == [ shards_num |-> None, protocol |-> None, M |-> None ]
OptionsObject(v) == [ kind |-> "options", val |-> v ]

\* the name a caller gives explicitly
UserName == << "m","y","d","o","c","s" >>

\* class MilvusConfig: the defaults of the dataclass fields.  The two
\* default_factory fields get a fresh empty dict per instance (see
\* dataclass_from_dict); index_config defaults to None.
MilvusConfigDefaultsAllDict ==
    [ collection_name |-> None,
      host |-> "localhost",
      port |-> DefaultPort,
      distance |-> "IP",
      index_type |-> "HNSW",
      index_config |-> Some(EmptyOptions),
      collection_config |-> Some(EmptyOptions),
      serialize_config |-> Some(EmptyOptions) ]

MilvusConfigDefaults ==
    [ collection_name |-> None,
      host |-> "localhost",
      port |-> DefaultPort,
      distance |-> "IP",
      index_type |-> "HNSW",
      index_config |-> None,
      collection_config |-> Some(EmptyOptions),
      serialize_config |-> Some(EmptyOptions) ]

\* allocate an optional option mapping given by value
AllocOptions(h, m) ==
    IF m = None THEN [ heap |-> h, ref |-> None ]
    ELSE [ heap |-> Append(h, OptionsObject(Get(m))), ref |-> Some(Len(h) + 1) ]

\* copy.deepcopy of an optional reference to an option mapping
CopyOptions(h, m) ==
    IF m = None THEN [ heap |-> h, ref |-> None ]
    ELSE [ heap |-> Append(h, h[Get(m)]), ref |-> Some(Len(h) + 1) ]

\* faulty variant of DeepCopy: copy.copy, the nested mappings stay shared
ShallowCopy(h, m) ==
    IF m = None THEN [ heap |-> h, ref |-> None ]
    ELSE [ heap |-> Append(h, h[Get(m)]), ref |-> Some(Len(h) + 1) ]

\* copy.deepcopy(config): None stays None; a dict or a MilvusConfig is
\* copied together with the option mappings it refers to
DeepCopy(h, m) ==
    IF m = None THEN [ heap |-> h, ref |-> None ]
    ELSE LET o  == h[Get(m)]
             c1 == CopyOptions(h, o.val.index_config)
             c2 == CopyOptions(c1.heap, o.val.collection_config)
             c3 == CopyOptions(c2.heap, o.val.serialize_config)
             n  == [ o EXCEPT !.val.index_config = c1.ref,
                              !.val.collection_config = c2.ref,
                              !.val.serialize_config = c3.ref ]
         IN  [ heap |-> Append(c3.heap, n), ref |-> Some(Len(c3.heap) + 1) ]

\* the value of an optional reference to an option mapping
OptionsValue(h, m) == IF m = None THEN None ELSE Some(h[Get(m)].val)

\* the value of a configuration, nested mappings included (what == compares)
DeepValue(h, m) ==
    IF m = None THEN None
    ELSE LET o == h[Get(m)]
         IN  Some([ o EXCEPT !.val.index_config = OptionsValue(h, @),
                             !.val.collection_config = OptionsValue(h, @),
                             !.val.serialize_config = OptionsValue(h, @) ])

\* faulty variant: `if config is None` instead of `if not config`
TruthyNotNone(h, m) == m # None

\* Python truthiness of `config`: None and the empty dict are false, a
\* MilvusConfig instance (no __bool__, no __len__) is true
Truthy(h, m) ==
    /\ m # None
    /\ LET o == h[Get(m)]
       IN  o.kind = "dict" => \E k \in DOMAIN o.val : o.val[k] # None

\* docarray.helper.dataclass_from_dict(MilvusConfig, config): the keys of
\* the dict become the constructor's keyword arguments, the fields left out
\* take the dataclass defaults; n_dim has no default
dataclass_from_dict(h, a) ==
    LET d  == h[a].val
        df == MilvusConfigDefaults
        Pick(k) == IF d[k] = None THEN df[k] ELSE Get(d[k])
        \* default_factory=dict builds a new dict for each instance
        ic == IF d.index_config # None THEN [ heap |-> h, ref |-> d.index_config ]
              ELSE AllocOptions(h, df.index_config)
        cc == IF d.collection_config # None
              THEN [ heap |-> ic.heap, ref |-> d.collection_config ]
              ELSE AllocOptions(ic.heap, df.collection_config)
        sc == IF d.serialize_config # None
              THEN [ heap |-> cc.heap, ref |-> d.serialize_config ]
              ELSE AllocOptions(cc.heap, df.serialize_config)
    IN  IF d.n_dim = None
        THEN [ heap |-> h, ref |-> None, err |-> "TypeError" ]
        ELSE [ heap |-> Append(sc.heap,
                   [ kind |-> "MilvusConfig",
                     val |-> [ n_dim |-> Get(d.n_dim),
                               collection_name |-> Pick("collection_name"),
                               host |-> Pick("host"),
                               port |-> Pick("port"),
                               distance |-> Pick("distance"),
                               index_type |-> Pick("index_type"),
                               index_config |-> ic.ref,
                               collection_config |-> cc.ref,
                               serialize_config |-> sc.ref ] ]),
               ref |-> Some(Len(sc.heap) + 1),
               err |-> "none" ]

----------------------------------------------------------------------------
(* _init_storage, lines 49-58: the configuration the adapter keeps *)

\* faulty variant: the guard `if config.collection_name is None` dropped, a name
\* is generated for every configuration
NeedsGeneratedNameAlways(name) == TRUE

\* line 55: config.collection_name is None
NeedsGeneratedName(name) == name = None

\* faulty variant: the token is appended without the namespace prefix
GeneratedNameNoPrefix(tok) == tok

\* lines 56-57: 'docarray__' + uuid.uuid4().hex
GeneratedName(tok) == NamespacePrefix \o tok

\* lines 49-58.  tok is the token uuid4 returns if it is asked for one.
\* The result: the heap, the exception raised ("none" if none) and the
\* reference stored in self._config.
ResolveConfig(h, inp, tok) ==
    LET c == DeepCopy(h, inp)
    IN  IF ~Truthy(c.heap, c.ref)
        THEN [ heap |-> c.heap, err |-> "ValueError", cfg |-> None ]
        ELSE LET r == IF c.heap[Get(c.ref)].kind = "dict"
                      THEN dataclass_from_dict(c.heap, Get(c.ref))
                      ELSE [ heap |-> c.heap, ref |-> c.ref, err |-> "none" ]
             IN  IF r.err # "none"
                 THEN [ heap |-> r.heap, err |-> r.err, cfg |-> None ]
                 ELSE LET a == Get(r.ref)
                          h2 == IF NeedsGeneratedName(r.heap[a].val.collection_name)
                                THEN [ r.heap EXCEPT ![a].val.collection_name =
                                                         Some(GeneratedName(tok)) ]
                                ELSE r.heap
                      IN  [ heap |-> h2, err |-> "none", cfg |-> r.ref ]

----------------------------------------------------------------------------
(* The pymilvus schema objects *)

FieldSchema(name, dtype, max_length, dim, is_primary) ==
    [ name |-> name, dtype |-> dtype, max_length |-> max_length, dim |-> dim,
      is_primary |-> is_primary ]

\* line 114: self._config.collection_name + '_offset2id'
Offset2idName(name) == name \o Offset2idSuffix

\* faulty variant: the dimension of the embedding field is fixed instead of n_dim
EmbeddingDimFixed(cfg) == DummyDim

\* line 76: dim=self._config.n_dim
EmbeddingDim(cfg) == cfg.n_dim

\* lines 72-91: the arguments _create_or_reuse_collection gives Collection()
PrimaryCollection(h, cfgRef, alias) ==
    LET cfg == h[Get(cfgRef)].val
    IN  [ name |-> Get(cfg.collection_name),
          fields |-> << FieldSchema("document_id", "VARCHAR", Some(IdMaxLength), None, TRUE),
                        FieldSchema("embedding", "FLOAT_VECTOR", None, Some(EmbeddingDim(cfg)), FALSE),
                        FieldSchema("serialized", "VARCHAR", Some(SerializedMaxLength), None, FALSE) >>,
          description |-> "DocumentArray collection",
          using |-> alias,
          options |-> h[Get(cfg.collection_config)].val ]

\* lines 95-118: the arguments _create_or_reuse_offset2id_collection gives
\* Collection(); collection_config is not applied
Offset2idCollection(h, cfgRef, alias) ==
    LET cfg == h[Get(cfgRef)].val
    IN  [ name |-> Offset2idName(Get(cfg.collection_name)),
          fields |-> << FieldSchema("offset", "VARCHAR", Some(IdMaxLength), None, TRUE),
                        FieldSchema("document_id", "VARCHAR", Some(IdMaxLength), None, FALSE),
                        FieldSchema("dummy_vector", "FLOAT_VECTOR", None, Some(DummyDim), FALSE) >>,
          description |-> "offset2id for DocumentArray",
          using |-> alias,
          options |-> EmptyOptions ]

ConnectionAlias == "docarray_default_connection"

----------------------------------------------------------------------------
(* _init_storage, lines 60-68: the external calls *)

\* faulty variant: the collections are created before the connection is opened
InitStepsConnectLate ==
    << "create_collection", "connect", "create_offset2id_collection",
       "base_init_storage" >>

\* lines 61, 65, 66, 68: the calls of _init_storage, in program order
InitSteps ==
    << "connect", "create_collection", "create_offset2id_collection",
       "base_init_storage" >>

\* the exception a failing step raises; pymilvus and the base class raise
\* their own, nothing is caught or translated
StepError(step) ==
    IF step = "base_init_storage" THEN "BaseStorageError" ELSE "MilvusException"

\* what one successful step does to the adapter and to the external store
StepEffect(st, step, h, cfgRef) ==
    LET cfg == h[Get(cfgRef)].val
    IN  CASE step = "connect" ->
               [ st EXCEPT !.connections =
                     @ \cup { [ alias |-> ConnectionAlias, host |-> cfg.host,
                                port |-> cfg.port ] } ]
          [] step = "create_collection" ->
               [ st EXCEPT !.store = @ \cup { PrimaryCollection(h, cfgRef, ConnectionAlias) },
                           !.self_collection = Some(Get(cfg.collection_name)) ]
          [] step = "create_offset2id_collection" ->
               [ st EXCEPT !.store = @ \cup { Offset2idCollection(h, cfgRef, ConnectionAlias) },
                           !.self_offset2id_collection =
                               Some(Offset2idName(Get(cfg.collection_name))) ]
          [] step = "base_init_storage" ->
               [ st EXCEPT !.base_initialized = TRUE ]

\* runs the steps from position i on; step number failAt raises (0: none
\* does).  A raising step has no effect and ends the run; what the earlier
\* steps did stays.
RECURSIVE RunSteps(_, _, _, _, _)
RunSteps(st, i, failAt, h, cfgRef) ==
    IF i > Len(InitSteps) THEN st
    ELSE LET called == [ st EXCEPT !.calls = Append(@, InitSteps[i]) ]
         IN  IF i = failAt
             THEN [ called EXCEPT !.raised = StepError(InitSteps[i]) ]
             ELSE RunSteps(StepEffect(called, InitSteps[i], h, cfgRef),
                           i + 1, failAt, h, cfgRef)

\* _init_storage(_docs, config): the whole handler
InitStorage(tok, failAt) ==
    /\ pc = "new"
    /\ LET r == ResolveConfig(heap, input, tok)
       IN  IF r.err # "none"
           THEN /\ heap' = r.heap
                /\ raised' = r.err
                /\ pc' = "failed"
                /\ UNCHANGED << self_config, self_connection_alias, self_collection,
                                self_offset2id_collection, base_initialized,
                                connections, store, calls >>
           ELSE LET st0 == [ connections |-> connections, store |-> store,
                             self_collection |-> self_collection,
                             self_offset2id_collection |-> self_offset2id_collection,
                             base_initialized |-> base_initialized,
                             calls |-> calls, raised |-> "none" ]
                    st == RunSteps(st0, 1, failAt, r.heap, r.cfg)
                IN  /\ heap' = r.heap
                    /\ self_config' = r.cfg
                    /\ self_connection_alias' = Some(ConnectionAlias)
                    /\ connections' = st.connections
                    /\ store' = st.store
                    /\ self_collection' = st.self_collection
                    /\ self_offset2id_collection' = st.self_offset2id_collection
                    /\ base_initialized' = st.base_initialized
                    /\ calls' = st.calls
                    /\ raised' = st.raised
                    /\ pc' = IF st.raised = "none" THEN "ready" ELSE "failed"
    /\ UNCHANGED << input, codecVars, subVars >>

\* _create_or_reuse_collection() called on an initialised adapter; the
\* external call succeeds or raises
CreateOrReuseCollection(ok) ==
    /\ pc = "ready"
    /\ IF ok
       THEN /\ store' = store \cup { PrimaryCollection(heap, self_config,
                                                       Get(self_connection_alias)) }
            /\ raised' = "none"
       ELSE /\ raised' = "MilvusException"
            /\ UNCHANGED store
    /\ UNCHANGED << heap, input, self_config, self_connection_alias, self_collection,
                    self_offset2id_collection, base_initialized, connections,
                    calls, pc, codecVars, subVars >>

\* _create_or_reuse_offset2id_collection() called on an initialised adapter
CreateOrReuseOffset2idCollection(ok) ==
    /\ pc = "ready"
    /\ IF ok
       THEN /\ store' = store \cup { Offset2idCollection(heap, self_config,
                                                         Get(self_connection_alias)) }
            /\ raised' = "none"
       ELSE /\ raised' = "MilvusException"
            /\ UNCHANGED store
    /\ UNCHANGED << heap, input, self_config, self_connection_alias, self_collection,
                    self_offset2id_collection, base_initialized, connections,
                    calls, pc, codecVars, subVars >>

----------------------------------------------------------------------------
(* Payload codec *)

\* the documents of the model: id, embedding and the rest of the content
Documents ==
    { [ id |-> "doc-a", embedding |-> << 1, 0 >>, text |-> "hello" ],
      [ id |-> "doc-b", embedding |-> << 0, 1 >>, text |-> "world" ] }

\* the batches: the sequences of at most MaxBatch documents
Batches == UNION { [ 1..n -> Documents ] : n \in 0..MaxBatch }

\* Document.to_base64(**serialize_config): the base64 text of the document's
\* bytes under the chosen protocol ('pickle' unless the options name one)
to_base64(doc, options) ==
    [ encoding |-> "base64",
      protocol |-> IF options.protocol = None THEN "pickle" ELSE Get(options.protocol),
      id |-> doc.id, embedding |-> doc.embedding, text |-> doc.text ]

\* docs[:, attr]: the column of one attribute, in the order of the documents
Column(docs, attr) == [ i \in 1..Len(docs) |-> docs[i][attr] ]

\* self._config.serialize_config
SerializeConfig == heap[Get(heap[Get(self_config)].val.serialize_config)].val

\* faulty variant: the id column comes second
DocPayloadSwapped(doc, options) ==
    << << doc.embedding >>, << doc.id >>, << to_base64(doc, options) >> >>

\* lines 134-138: the value _doc_to_milvus_payload returns
DocPayload(doc, options) ==
    << << doc.id >>, << doc.embedding >>, << to_base64(doc, options) >> >>

\* faulty variant: the serialized column skips the first document
DocsPayloadDropFirst(docs, options) ==
    << Column(docs, "id"),
       Column(docs, "embedding"),
       [ i \in 1..(Len(docs) - 1) |-> to_base64(docs[i + 1], options) ] >>

\* lines 141-145: the value _docs_to_milvus_payload returns
DocsPayload(docs, options) ==
    << Column(docs, "id"),
       Column(docs, "embedding"),
       [ i \in 1..Len(docs) |-> to_base64(docs[i], options) ] >>

\* _doc_to_milvus_payload(doc)
DocToMilvusPayload(doc) ==
    /\ pc = "ready"
    /\ docs_arg' = [ op |-> "doc", docs |-> << doc >> ]
    /\ payload' = DocPayload(doc, SerializeConfig)
    /\ UNCHANGED << heap, input, adapterVars, subVars >>

\* _docs_to_milvus_payload(docs)
DocsToMilvusPayload(docs) ==
    /\ pc = "ready"
    /\ docs_arg' = [ op |-> "docs", docs |-> docs ]
    /\ payload' = DocsPayload(docs, SerializeConfig)
    /\ UNCHANGED << heap, input, adapterVars, subVars >>

----------------------------------------------------------------------------
(* Subindex namer *)

\* the identifiers of the subindices
SubindexNames == { << "@", "c" >>, << "@", ".", "[", "i", "m", "g", "]" >> }

\* a name a subindex configuration gives explicitly
SubindexOwnName == << "c", "h", "u", "n", "k", "s" >>

\* the subindex-specific configurations: any subset of the keys may be set
SubindexConfigs ==
    { [ collection_name |-> n, n_dim |-> d ] :
        n \in { None, Some(SubindexOwnName) },
        d \in { None } \cup { Some(k) : k \in 1..MaxDim } }

\* the caller's join {**config_root, **config_subindex}
JoinConfigs(root, sub) ==
    [ k \in DOMAIN root |-> IF sub[k] # None THEN sub[k] ELSE root[k] ]

\* faulty variant: the subindex identifier is appended without the separator
EnsureUniqueConfigNoSeparator(config_root, config_subindex, config_joined, subindex_name) ==
    IF config_subindex.collection_name = None
    THEN [ config_joined EXCEPT !.collection_name =
               Some(Get(config_joined.collection_name) \o subindex_name) ]
    ELSE config_joined

\* lines 127-131: the value _ensure_unique_config returns
EnsureUniqueConfig(config_root, config_subindex, config_joined, subindex_name) ==
    IF config_subindex.collection_name = None
    THEN [ config_joined EXCEPT !.collection_name =
               Some(Get(config_joined.collection_name) \o SubindexSeparator
                    \o subindex_name) ]
    ELSE config_joined

\* the root configuration as the caller passes it: the adapter's resolved
\* configuration as a dict
RootConfig ==
    LET cfg == heap[Get(self_config)].val
    IN  [ collection_name |-> Some(Get(cfg.collection_name)), n_dim |-> Some(cfg.n_dim) ]

\* _ensure_unique_config(config_root, config_subindex, config_joined, subindex_name)
EnsureUnique(sub, name) ==
    /\ pc = "ready"
    /\ LET joined == JoinConfigs(RootConfig, sub)
       IN  /\ sub_args' = Some([ root |-> RootConfig, subindex |-> sub,
                                 joined |-> joined, name |-> name ])
           /\ sub_ret' = Some(EnsureUniqueConfig(RootConfig, sub, joined, name))
    /\ UNCHANGED << heap, input, adapterVars, codecVars >>

----------------------------------------------------------------------------
(* What the owner of the adapter may do to the resolved configuration *)

OptionFields == { "index_config", "collection_config", "serialize_config" }

\* self._config.host = ...
MutateResolvedField ==
    /\ self_config # None
    /\ heap' = [ heap EXCEPT ![Get(self_config)].val.host = "changed.example.org" ]
    /\ UNCHANGED << input, adapterVars, codecVars, subVars >>

\* self._config.<option mapping>['shards_num'] = ...
MutateResolvedOptions(f) ==
    /\ self_config # None
    /\ heap[Get(self_config)].val[f] # None
    /\ heap' = [ heap EXCEPT ![Get(heap[Get(self_config)].val[f])].val.shards_num =
                                 Some(64) ]
    /\ UNCHANGED << input, adapterVars, codecVars, subVars >>

----------------------------------------------------------------------------
(* The configurations a caller passes *)

\* a configuration object on an empty heap: the option mappings first
BuildInput(kind, scalars, ic, cc, sc) ==
    LET a1 == AllocOptions(<< >>, ic)
        a2 == AllocOptions(a1.heap, cc)
        a3 == AllocOptions(a2.heap, sc)
        obj == [ kind |-> kind,
                 val |-> [ n_dim |-> scalars.n_dim,
                           collection_name |-> scalars.collection_name,
                           host |-> scalars.host,
                           port |-> scalars.port,
                           distance |-> scalars.distance,
                           index_type |-> scalars.index_type,
                           index_config |-> a1.ref,
                           collection_config |-> a2.ref,
                           serialize_config |-> a3.ref ] ]
    IN  [ heap |-> Append(a3.heap, obj), ref |-> Some(Len(a3.heap) + 1) ]

IndexOptions == [ EmptyOptions EXCEPT !.M = Some(16) ]
CollectionOptions == [ EmptyOptions EXCEPT !.shards_num = Some(2) ]
SerializeOptions == [ EmptyOptions EXCEPT !.protocol = Some("protobuf") ]

\* dict inputs: every key may be left out (None); collection_name may also
\* be given as None.  host, port, distance and index_type are given together
\* or not at all.
DictScalars ==
    { [ n_dim |-> d, collection_name |-> n, host |-> c[1], port |-> c[2],
        distance |-> c[3], index_type |-> c[4] ] :
        d \in { None } \cup { Some(k) : k \in 1..MaxDim },
        n \in { None, Some(None), Some(Some(UserName)) },
        c \in { << None, None, None, None >>,
                << Some("milvus.example.org"), Some(9091), Some("L2"), Some("IVF_FLAT") >> } }

DictInputs ==
    { BuildInput("dict", s, ic, cc, sc) :
        s \in DictScalars,
        ic \in { None, Some(IndexOptions) },
        cc \in { None, Some(EmptyOptions), Some(CollectionOptions) },
        sc \in { None, Some(SerializeOptions) } }

\* MilvusConfig inputs: every field holds a value
ObjectScalars ==
    { [ n_dim |-> d, collection_name |-> n, host |-> c[1], port |-> c[2],
        distance |-> c[3], index_type |-> c[4] ] :
        d \in 1..MaxDim,
        n \in { None, Some(UserName) },
        c \in { << "localhost", DefaultPort, "IP", "HNSW" >>,
                << "milvus.example.org", 9091, "L2", "IVF_FLAT" >> } }

ObjectInputs ==
    { BuildInput("MilvusConfig", s, ic, cc, sc) :
        s \in ObjectScalars,
        ic \in { None, Some(IndexOptions) },
        cc \in { Some(EmptyOptions), Some(CollectionOptions) },
        sc \in { Some(EmptyOptions), Some(SerializeOptions) } }

Inputs == { [ heap |-> << >>, ref |-> None ] } \cup DictInputs \cup ObjectInputs

----------------------------------------------------------------------------
(* Specifications *)

Init ==
    /\ \E i \in Inputs : heap = i.heap /\ input = i.ref
    /\ self_config = None
    /\ self_connection_alias = None
    /\ self_collection = None
    /\ self_offset2id_collection = None
    /\ base_initialized = FALSE
    /\ connections = {}
    /\ store = {}
    /\ calls = << >>
    /\ raised = "none"
    /\ pc = "new"
    /\ docs_arg = [ op |-> "none", docs |-> << >> ]
    /\ payload = << >>
    /\ sub_args = None
    /\ sub_ret = None

\* the adapter's operations
Next ==
    \/ \E tok \in Uuid4Hex, failAt \in 0..Len(InitSteps) : InitStorage(tok, failAt)
    \/ \E ok \in BOOLEAN : CreateOrReuseCollection(ok)
    \/ \E ok \in BOOLEAN : CreateOrReuseOffset2idCollection(ok)
    \/ \E doc \in Documents : DocToMilvusPayload(doc)
    \/ \E docs \in Batches : DocsToMilvusPayload(docs)

Spec == Init /\ [][Next]_vars

\* the adapter and an owner that changes the resolved configuration
NextAlias ==
    \/ \E tok \in Uuid4Hex, failAt \in 0..Len(InitSteps) : InitStorage(tok, failAt)
    \/ MutateResolvedField
    \/ \E f \in OptionFields : MutateResolvedOptions(f)

SpecAlias == Init /\ [][NextAlias]_vars

\* the adapter and its subindices
NextSubindex ==
    \/ \E tok \in Uuid4Hex, failAt \in 0..Len(InitSteps) : InitStorage(tok, failAt)
    \/ \E sub \in SubindexConfigs, name \in SubindexNames : EnsureUnique(sub, name)

SpecSubindex == Init /\ [][NextSubindex]_vars

----------------------------------------------------------------------------
(* Properties *)

\* the object the caller passed and the configuration the adapter keeps
InputObject == heap[Get(input)]
Resolved == heap[Get(self_config)].val
ResolvedName == Get(Resolved.collection_name)

IsHex(c) == c \in { "0","1","2","3","4","5","6","7","8","9","a","b","c","d","e","f" }

FieldsOf(c) == { c.fields[i] : i \in 1..Len(c.fields) }

\* C1: a successful _init_storage provisions exactly two collections: the
\* primary one, named N, with the 3 fields document_id (primary-key string
\* of max length 1024), embedding (float vector of dimension D) and
\* serialized (string of max length 65535), created with the
\* collection_config options; and one named N + '_offset2id' with the 3
\* fields document_id (string of max length 1024, not primary), offset
\* (primary-key string of max length 1024) and a dummy float vector of
\* dimension 1, created without the collection_config options.
C1_TwoCollections ==
    pc = "ready" =>
        /\ Cardinality(store) = 2
        /\ \E p \in store :
              /\ p.name = ResolvedName
              /\ Len(p.fields) = 3
              /\ FieldsOf(p) =
                    { [ name |-> "document_id", dtype |-> "VARCHAR",
                        max_length |-> Some(1024), dim |-> None, is_primary |-> TRUE ],
                      [ name |-> "embedding", dtype |-> "FLOAT_VECTOR",
                        max_length |-> None, dim |-> Some(Resolved.n_dim),
                        is_primary |-> FALSE ],
                      [ name |-> "serialized", dtype |-> "VARCHAR",
                        max_length |-> Some(65535), dim |-> None, is_primary |-> FALSE ] }
              /\ p.options = heap[Get(Resolved.collection_config)].val
              /\ (InputObject.val.collection_config # None =>
                    p.options = heap[Get(InputObject.val.collection_config)].val)
        /\ \E o \in store :
              /\ o.name = ResolvedName \o << "_","o","f","f","s","e","t","2","i","d" >>
              /\ Len(o.fields) = 3
              /\ FieldsOf(o) =
                    { [ name |-> "document_id", dtype |-> "VARCHAR",
                        max_length |-> Some(1024), dim |-> None, is_primary |-> FALSE ],
                      [ name |-> "offset", dtype |-> "VARCHAR",
                        max_length |-> Some(1024), dim |-> None, is_primary |-> TRUE ],
                      [ name |-> "dummy_vector", dtype |-> "FLOAT_VECTOR",
                        max_length |-> None, dim |-> Some(1), is_primary |-> FALSE ] }
              /\ o.options = [ shards_num |-> None, protocol |-> None, M |-> None ]

\* C1 witness: an initialised adapter of dimension 2 whose collection_config
\* sets an option
C1_Witness ==
    /\ pc = "ready"
    /\ Resolved.n_dim = 2
    /\ heap[Get(Resolved.collection_config)].val.shards_num # None
    /\ Cardinality(store) = 2

\* C2: _docs_to_milvus_payload returns three columns (ids, embeddings,
\* serialized strings), each as long as the batch, and entry i of each
\* column is the id, the embedding and the serialization under
\* serialize_config of document i.
C2_BatchAligned ==
    docs_arg.op = "docs" =>
        /\ Len(payload) = 3
        /\ \A c \in 1..3 : Len(payload[c]) = Len(docs_arg.docs)
        /\ \A i \in 1..Len(docs_arg.docs) :
              /\ payload[1][i] = docs_arg.docs[i].id
              /\ payload[2][i] = docs_arg.docs[i].embedding
              /\ payload[3][i] = to_base64(docs_arg.docs[i], SerializeConfig)

\* C2 witness: a batch of two different documents was encoded under a
\* serialize_config that names a protocol
C2_Witness ==
    /\ docs_arg.op = "docs"
    /\ Len(docs_arg.docs) >= 2
    /\ docs_arg.docs[1] # docs_arg.docs[2]
    /\ SerializeConfig.protocol # None

\* the dict that sets no key
IsEmptyDict(o) == o.kind = "dict" /\ \A k \in DOMAIN o.val : o.val[k] = None

\* C3: _init_storage with an absent or empty configuration fails at once
\* with the invalid-configuration error (ValueError): no connection is
\* opened, no collection is created, no configuration is stored.
C3_EmptyConfigRejected ==
    ((input = None \/ IsEmptyDict(InputObject)) /\ pc # "new") =>
        /\ pc = "failed"
        /\ raised = "ValueError"
        /\ calls = << >>
        /\ connections = {}
        /\ store = {}
        /\ self_config = None
        /\ self_connection_alias = None

\* C3 witness: _init_storage has run on the empty dict
C3_Witness ==
    /\ input # None
    /\ IsEmptyDict(InputObject)
    /\ pc = "failed"

\* the dict that sets n_dim and nothing else
IsOnlyNDim(o) ==
    /\ o.kind = "dict"
    /\ o.val.n_dim # None
    /\ \A k \in DOMAIN o.val \ { "n_dim" } : o.val[k] = None

\* C4: a mapping that sets only n_dim resolves to host 'localhost', port
\* 19530, distance 'IP', index_type 'HNSW' and a collection_name made of
\* 'docarray__' and a generated token of 32 hexadecimal characters.
C4_DefaultsAndGeneratedName ==
    (input # None /\ IsOnlyNDim(InputObject) /\ pc # "new") =>
        /\ self_config # None
        /\ Resolved.host = "localhost"
        /\ Resolved.port = 19530
        /\ Resolved.distance = "IP"
        /\ Resolved.index_type = "HNSW"
        /\ Resolved.n_dim = Get(InputObject.val.n_dim)
        /\ Resolved.collection_name # None
        /\ Len(ResolvedName) = 10 + 32
        /\ SubSeq(ResolvedName, 1, 10) = << "d","o","c","a","r","r","a","y","_","_" >>
        /\ \A i \in 11..42 : IsHex(ResolvedName[i])
        /\ SubSeq(ResolvedName, 11, 42) \in Uuid4Hex

\* C4 witness: an adapter initialised from the mapping {n_dim: 2}
C4_Witness ==
    /\ input # None
    /\ IsOnlyNDim(InputObject)
    /\ InputObject.val.n_dim = Some(2)
    /\ pc = "ready"

\* C5: no step, neither _init_storage with its defaulting of
\* collection_name nor a later change of the resolved configuration or of
\* its nested option mappings, changes the object the caller passed.
C5_InputUntouched ==
    [][DeepValue(heap, input)' = DeepValue(heap, input)]_vars

\* C5 witness: a caller's MilvusConfig without a name and with a
\* collection_config was resolved, and the resolved configuration's host and
\* collection_config were changed afterwards
C5_Witness ==
    /\ input # None
    /\ InputObject.kind = "MilvusConfig"
    /\ InputObject.val.collection_name = None
    /\ pc = "ready"
    /\ Resolved.host = "changed.example.org"
    /\ heap[Get(Resolved.collection_config)].val.shards_num = Some(64)

\* C6: _ensure_unique_config returns the joined configuration with
\* collection_name R + '_subindex_' + S if the subindex configuration sets
\* no collection_name, and with collection_name untouched if it sets one;
\* every other key of the joined configuration is unchanged.
C6_SubindexName ==
    sub_args # None =>
        LET a == Get(sub_args)
            r == Get(sub_ret)
        IN  /\ a.subindex.collection_name = None =>
                  r.collection_name =
                      Some(Get(a.root.collection_name)
                           \o << "_","s","u","b","i","n","d","e","x","_" >> \o a.name)
            /\ a.subindex.collection_name # None =>
                  r.collection_name = a.joined.collection_name
            /\ \A k \in DOMAIN a.joined \ { "collection_name" } : r[k] = a.joined[k]
            /\ DOMAIN r = DOMAIN a.joined

\* C6 witness: a subindex configuration that sets n_dim and no
\* collection_name was joined under a generated root name
C6_Witness ==
    /\ sub_args # None
    /\ Get(sub_args).subindex.collection_name = None
    /\ Get(sub_args).subindex.n_dim # None
    /\ Get(sub_args).subindex.n_dim # Get(sub_args).root.n_dim
    /\ Len(Get(Get(sub_args).root.collection_name)) = 42

\* the collection_name the caller set, None if the caller set none
CallerName ==
    IF input = None THEN None
    ELSE IF InputObject.kind = "dict"
         THEN (IF InputObject.val.collection_name = None THEN None
               ELSE Get(InputObject.val.collection_name))
         ELSE InputObject.val.collection_name

\* C7: when the caller sets collection_name, the configuration _init_storage
\* stores carries that name, and it keeps it through every later
\* provisioning and payload-encode operation.
C7_NamePreserved ==
    (CallerName # None /\ self_config # None) =>
        Resolved.collection_name = CallerName

\* C7 witness: the caller set the name, and after _init_storage a
\* provisioning call has raised and a batch has been encoded
C7_Witness ==
    /\ CallerName # None
    /\ pc = "ready"
    /\ raised = "MilvusException"
    /\ docs_arg.op = "docs"
    /\ Len(docs_arg.docs) > 0

\* C8: the single-document encode of d and the batch encode of [d] return
\* the same columns: [d.id], [d.embedding], [serialization of d].
C8_SingleEqualsBatchOfOne ==
    /\ docs_arg.op = "doc" =>
          /\ payload = DocsPayload(docs_arg.docs, SerializeConfig)
          /\ payload = << << docs_arg.docs[1].id >>, << docs_arg.docs[1].embedding >>,
                          << to_base64(docs_arg.docs[1], SerializeConfig) >> >>
    /\ (docs_arg.op = "docs" /\ Len(docs_arg.docs) = 1) =>
          /\ payload = DocPayload(docs_arg.docs[1], SerializeConfig)
          /\ payload = << << docs_arg.docs[1].id >>, << docs_arg.docs[1].embedding >>,
                          << to_base64(docs_arg.docs[1], SerializeConfig) >> >>

\* C8 witness: a single document was encoded under a serialize_config that
\* names a protocol
C8_Witness ==
    /\ docs_arg.op = "doc"
    /\ SerializeConfig.protocol # None
    /\ Len(payload) = 3

\* the configuration leaves the three option fields unspecified
OptionsUnspecified ==
    /\ input # None
    /\ InputObject.kind = "dict"
    /\ \A f \in OptionFields : InputObject.val[f] = None

\* the resolved option field f holds an empty mapping
HoldsEmptyMapping(f) ==
    /\ Resolved[f] # None
    /\ \A k \in DOMAIN heap[Get(Resolved[f])].val : heap[Get(Resolved[f])].val[k] = None

\* C9 as stated: when the option fields are unspecified, the resolved
\* record holds an empty mapping for index_config, collection_config and
\* serialize_config.
C9_AllOptionsEmpty ==
    (OptionsUnspecified /\ self_config # None) =>
        \A f \in OptionFields : HoldsEmptyMapping(f)

\* C9 amended: when the option fields are unspecified, the resolved record
\* holds an empty mapping for collection_config and for serialize_config,
\* and None for index_config.
C9_OptionDefaults ==
    (OptionsUnspecified /\ self_config # None) =>
        /\ HoldsEmptyMapping("collection_config")
        /\ HoldsEmptyMapping("serialize_config")
        /\ Resolved.index_config = None

\* C9 witness: a mapping without option fields was resolved
C9_Witness ==
    /\ OptionsUnspecified
    /\ pc = "ready"
    /\ InputObject.val.host # None

IsPrefix(s, t) == Len(s) <= Len(t) /\ \A i \in 1..Len(s) : s[i] = t[i]

HasCollection(name) == \E c \in store : c.name = name

\* C10: _init_storage calls connect (alias 'docarray_default_connection'),
\* then creates the primary collection, then the offset2id collection, then
\* runs the base-class initialisation; a step that raises ends the run, no
\* later step is called, and what the earlier steps did is not rolled back.
C10_CallOrder ==
    /\ IsPrefix(calls, << "connect", "create_collection",
                          "create_offset2id_collection", "base_init_storage" >>)
    /\ pc = "ready" => (Len(calls) = 4 /\ base_initialized)
    /\ (pc = "failed" /\ self_config # None) =>
          (Len(calls) >= 1 /\ raised # "none" /\ ~base_initialized)
    /\ self_config # None =>
          LET done == IF pc = "failed" THEN Len(calls) - 1 ELSE Len(calls)
              offsetName == ResolvedName \o << "_","o","f","f","s","e","t","2","i","d" >>
          IN  /\ (done >= 1) <=>
                    connections = { [ alias |-> "docarray_default_connection",
                                      host |-> Resolved.host, port |-> Resolved.port ] }
              /\ (done < 1) <=> connections = {}
              /\ (done >= 2) <=> HasCollection(ResolvedName)
              /\ (done >= 3) <=> HasCollection(offsetName)
              /\ (done >= 4) <=> base_initialized

\* C10 witness: the creation of the offset2id collection raised, the
\* primary collection created just before is still in the store
C10_Witness ==
    /\ pc = "failed"
    /\ calls = << "connect", "create_collection", "create_offset2id_collection" >>
    /\ raised = "MilvusException"
    /\ Cardinality(store) = 1
    /\ HasCollection(ResolvedName)

====
